---- MODULE Spec2Model ----
\* rconfd: the broker of src/src/main.rs (main_loop), with the secret store
\* (secrets.rs), the template registry (conf.rs), the checksum store
\* (checksum.rs), the timer tasks (task.rs) and the s6 readiness signal (s6.rs).
EXTENDS Bags, FiniteSets, Integers, Sequences, TLC

VARIABLES
    args,        \* command line: [daemon, ready_fd]
    input,       \* configuration read at startup and the HashMap iteration orders
    pc,          \* "startup" | "loop" | "stopped"
    err,         \* None, or the error main_loop returned / the panic
    now,         \* wall clock, in seconds
    queue,       \* the unbounded mpsc channel (FIFO)
    timers,      \* bag of pending delay_task timers [msg, due]
    secrets,     \* Secrets: path -> None | Secret
    client,      \* VaultClient: role -> None | Auth
    checksums,   \* Checksums: file -> None | digest
    disk,        \* output files: file -> None | content
    modes,       \* output files: file -> None | permission bits
    first_run,   \* main_loop: first_run
    generated,   \* main_loop: generated
    fd,          \* state of the descriptor number given with -r
    matCount,    \* history: completed materializations per template
    passCount,   \* history: pass completions counted so far
    readyWrites, \* history: newlines written to descriptor number ready_fd
    origin,      \* history: for each message of the queue, the code that sent it
    stale,       \* history: for each message of the queue, the declared paths that
                 \* had no valid secret when it was sent and were not fetched since
    last,        \* history: what the last step did
    intext,      \* the string given to a parser of the crate, outside of main_loop
    results      \* what each function applied to intext returned: name -> value

vars == <<args, input, pc, err, now, queue, timers, secrets, client, checksums,
          disk, modes, first_run, generated, fd, matCount, passCount, readyWrites, origin,
          stale, last, intext, results>>

\* Option<T>: None, Some(x)
None == <<>>
Some(x) == <<x>>
Unwrap(o) == o[1]

\* ---------------------------------------------------------------- bounds
MaxTime == 3
MaxMat == 3
MaxQueue == 5
MaxTimers == 3

\* ---------------------------------------------------------------- inputs
\* JSON values are sequences of tokens
Values == {<<"v1">>, <<"v2">>}
\* the lease the secret service grants, in seconds
Lease == 3
\* what a command may print, what a file or a variable may hold
Stdouts == {<<"v1", "\n">>, <<" ", "v1", " ">>}
\* what the command of a "js" path may print besides
JsonStdouts == {<<"\"", "v2", "\"", "\n">>}
Contents == {<<"\"", "v1", "\"">>, <<"v1">>}

P_VAULT == "vault:r1:kv/a"
P_EXE == "exe:str,dynamic:/x"
P_ENV == "env:str:FOO"
P_FILE == "file:js:/in"
P_VAULT2 == "vault:r1,get:kv/b"
P_EXE_STATIC == "exe:str,static:/y"
P_EXE_PLAIN == "exe:str:/z"
P_EXE_REL == "exe:str:x -y"
P_EXE_JS == "exe:js:/j"
SecretPool ==
    {P_VAULT, P_VAULT2, P_EXE, P_ENV, P_FILE, P_EXE_STATIC, P_EXE_PLAIN, P_EXE_REL, P_EXE_JS}

\* SecretPath::try_from of each path of the pool (path: the third segment)
SecretPath(p) ==
    CASE p = P_VAULT -> [backend |-> "Vault", args |-> <<"r1">>, path |-> "kv/a", full_path |-> <<"k", "v", "/", "a">>]
      [] p = P_VAULT2 -> [backend |-> "Vault", args |-> <<"r1", "get">>, path |-> "kv/b", full_path |-> <<"k", "v", "/", "b">>]
      [] p = P_EXE -> [backend |-> "Exe", args |-> <<"str", "dynamic">>, path |-> "/x", full_path |-> <<"/", "x">>]
      [] p = P_EXE_STATIC -> [backend |-> "Exe", args |-> <<"str", "static">>, path |-> "/y", full_path |-> <<"/", "y">>]
      [] p = P_EXE_PLAIN -> [backend |-> "Exe", args |-> <<"str">>, path |-> "/z", full_path |-> <<"/", "z">>]
      [] p = P_EXE_REL -> [backend |-> "Exe", args |-> <<"str">>, path |-> "x -y", full_path |-> <<"x", " ", "-", "y">>]
      [] p = P_EXE_JS -> [backend |-> "Exe", args |-> <<"js">>, path |-> "/j", full_path |-> <<"/", "j">>]
      [] p = P_ENV -> [backend |-> "Env", args |-> <<"str">>, path |-> "FOO", full_path |-> <<"F", "O", "O">>]
      [] p = P_FILE -> [backend |-> "File", args |-> <<"js">>, path |-> "/in", full_path |-> <<"/", "i", "n">>]

Templates == {"t1", "t2", "t3", "t4", "t5", "t6", "t7", "t8", "t9", "t10"}

\* the job declarations the configuration files may hold (TemplateConf);
\* files: the keys of the object the template evaluates to
TemplateConf(t) ==
    CASE t = "t1" -> [secrets |-> <<>>,
                      files |-> <<"o1">>,
                      hooks |-> [modified |-> Some(<<"/", "m", "1">>), ready |-> None]]
      [] t = "t2" -> [secrets |-> (P_VAULT :> "a"),
                      files |-> <<"o2">>,
                      hooks |-> [modified |-> Some(<<"/", "m", "2", " ", "-", "r">>),
                                 ready |-> Some(<<"/", "r", "2">>)]]
      [] t = "t3" -> [secrets |-> (P_VAULT :> "a") @@ (P_EXE :> "b"),
                      files |-> <<"o3">>,
                      hooks |-> [modified |-> Some(<<"m", "3">>),
                                 ready |-> Some(<<" ", "r", "3", " ", "x">>)]]
      [] t = "t4" -> [secrets |-> (P_ENV :> "e") @@ (P_FILE :> "f"),
                      files |-> <<"o4", "o5">>,
                      hooks |-> [modified |-> None, ready |-> Some(<<"/", "r", "4">>)]]
      [] t = "t5" -> [secrets |-> (P_VAULT :> "c"),
                      files |-> <<"o6">>,
                      hooks |-> [modified |-> Some(<<"/", "m", "5">>), ready |-> None]]
      [] t = "t6" -> [secrets |-> (P_VAULT :> "a") @@ (P_VAULT2 :> "w"),
                      files |-> <<"o7">>,
                      hooks |-> [modified |-> Some(<<"/", "m", "6">>), ready |-> None]]
      [] t = "t7" -> [secrets |-> (P_EXE :> "x"),
                      files |-> <<"o8">>,
                      hooks |-> [modified |-> Some(<<"m", "7">>),
                                 ready |-> Some(<<"/", "r", "7">>)]]
      [] t = "t8" -> [secrets |-> (P_EXE_STATIC :> "y") @@ (P_EXE_PLAIN :> "z"),
                      files |-> <<"o9">>,
                      hooks |-> [modified |-> None, ready |-> None]]
      [] t = "t9" -> [secrets |-> (P_EXE_REL :> "x"),
                      files |-> <<"o10">>,
                      hooks |-> [modified |-> None, ready |-> None]]
      [] t = "t10" -> [secrets |-> (P_EXE_JS :> "j"),
                       files |-> <<"o11">>,
                       hooks |-> [modified |-> None, ready |-> None]]

\* TemplateConf.mode of each job: the mode of its files, an octal string
TemplateMode(t) ==
    CASE t = "t2" -> <<"0", "6", "0", "0">>
      [] t = "t4" -> <<"r", "w">>
      [] OTHER -> <<"0", "6", "4", "4">>

\* the permission bits of a file that File::create makes (0666 under umask 022)
CreateMode == 420
\* the permission bits of an output file that was there before the run (0640)
OldMode == 416

Files == {"o1", "o2", "o3", "o4", "o5", "o6", "o7", "o8", "o9", "o10", "o11"}

\* the registries the configuration directory may describe
Registries ==
    {{}, {"t1"}, {"t2"}, {"t3"}, {"t4"}, {"t1", "t2"}, {"t1", "t4"}, {"t2", "t5"}}

Perms(S) == {s \in [1..Cardinality(S) -> S] : \A i, j \in DOMAIN s : s[i] = s[j] => i = j}

Range(s) == {s[i] : i \in DOMAIN s}

Declared(t) == DOMAIN TemplateConf(t).secrets

\* a faulty variant: the paths of the jobs are not collected
DeclaredBy_none(reg) == {}
DeclaredBy(reg) == UNION {Declared(t) : t \in reg}

FilesOf(reg) == UNION {Range(TemplateConf(t).files) : t \in reg}

RECURSIVE Cat(_)
Cat(ss) == IF ss = <<>> THEN <<>> ELSE Head(ss) \o Cat(Tail(ss))

\* ---------------------------------------------------------------- message.rs
Login(role) == [type |-> "Login", role |-> role]
GetSecret(path, gen_tmpl) == [type |-> "GetSecret", path |-> path, gen_tmpl |-> gen_tmpl]
GenerateTemplate(tmpl) == [type |-> "GenerateTemplate", tmpl |-> tmpl]

\* ---------------------------------------------------------------- vault_jwt::secret::Secret
SecretNew(value, lease, t) == [value |-> value, lease |-> lease, renewable |-> FALSE, time |-> t]
RenewDelay(lease_duration) == (lease_duration * 2) \div 3
is_valid(s, t) == s.lease = None \/ t - s.time < Unwrap(s.lease)
to_renew(s, t) == s.renewable /\ s.lease # None /\ t - s.time >= RenewDelay(Unwrap(s.lease))
renew_delay(s) == IF s.renewable /\ s.lease # None THEN Some(RenewDelay(Unwrap(s.lease))) ELSE None
has_lease(s) == s.lease # None
SecretEq(a, b) == a.value = b.value

\* ---------------------------------------------------------------- vault_jwt::client
is_logged(cl, role, t) == cl[role] # None /\ t - Unwrap(cl[role]).time < Unwrap(cl[role]).lease_duration
auth_renew_delay(auth) == IF auth.renewable THEN Some(RenewDelay(auth.lease_duration)) ELSE None

\* ---------------------------------------------------------------- secrets.rs
\* a faulty variant: the slot is left as it is when the payload is the same
replace_changed(store, path, secret) ==
    LET prev_val == IF path \in DOMAIN store THEN store[path] ELSE None
        res == prev_val = None \/ ~SecretEq(Unwrap(prev_val), secret)
    IN  <<IF res THEN (path :> Some(secret)) @@ store ELSE store, res>>
\* Secrets::replace: <<the store afterwards, the returned bool>>
replace(store, path, secret) ==
    LET prev_val == IF path \in DOMAIN store THEN store[path] ELSE None
        res == prev_val = None \/ ~SecretEq(Unwrap(prev_val), secret)
    IN  <<(path :> Some(secret)) @@ store, res>>

any_leased_positive(store) ==
    \E p \in DOMAIN store :
        store[p] # None /\ has_lease(Unwrap(store[p])) /\ Unwrap(Unwrap(store[p]).lease) > 0
any_leased(store) == \E p \in DOMAIN store : store[p] # None /\ has_lease(Unwrap(store[p]))

\* ---------------------------------------------------------------- conf.rs
confs_len == Cardinality(input.registry)

\* str::split_whitespace on a sequence of characters
Whitespace == {" ", "\n", "\t"}
RECURSIVE split_ws(_, _)
split_ws(s, word) ==
    IF s = <<>> THEN (IF word = <<>> THEN <<>> ELSE <<word>>)
    ELSE IF Head(s) \in Whitespace
         THEN (IF word = <<>> THEN <<>> ELSE <<word>>) \o split_ws(Tail(s), <<>>)
         ELSE split_ws(Tail(s), Append(word, Head(s)))
split_whitespace(s) == split_ws(s, <<>>)

starts_with_slash(word) == word # <<>> /\ Head(word) = "/"

\* Hooks::trigger: the commands it executes (none, or one)
HookOf(t, hook_type) ==
    IF hook_type = "modified" THEN TemplateConf(t).hooks.modified ELSE TemplateConf(t).hooks.ready
\* a faulty variant: the command is executed wherever it is
trigger_unchecked(t, hook_type) ==
    LET hook == HookOf(t, hook_type)
        argv == split_whitespace(Unwrap(hook))
    IN  IF hook = None THEN <<>>
        ELSE IF Len(argv) > 0
             THEN <<[tmpl |-> t, hook |-> hook_type, argv |-> argv]>>
             ELSE <<>>
trigger(t, hook_type) ==
    LET hook == HookOf(t, hook_type)
        argv == split_whitespace(Unwrap(hook))
    IN  IF hook = None THEN <<>>
        ELSE IF Len(argv) > 0 /\ starts_with_slash(argv[1])
             THEN <<[tmpl |-> t, hook |-> hook_type, argv |-> argv]>>
             ELSE <<>>

\* the entries of the store declared by template t, in the store's iteration order
DeclaredEntries(t) == SelectSeq(input.secretsIter, LAMBDA p : p \in Declared(t))

\* TemplateConfs::generate_templates: the messages it sends, in order
\* a faulty variant: no secret is fetched again
RefetchOf_none(store, t, tm) == <<>>
RefetchOf(store, t, tm) ==
    SelectSeq(DeclaredEntries(t),
              LAMBDA p : store[p] = None \/ ~is_valid(Unwrap(store[p]), tm))
\* a faulty variant: the secrets fetched again trigger the generation in turn
generate_templates_for_again(store, path, t, tm) ==
    IF path \in Declared(t) /\ \A p \in DOMAIN store : p \in Declared(t) => store[p] # None
    THEN [i \in 1..Len(RefetchOf(store, t, tm)) |-> GetSecret(RefetchOf(store, t, tm)[i], TRUE)]
         \o <<GenerateTemplate(t)>>
    ELSE <<>>
generate_templates_for(store, path, t, tm) ==
    IF path \in Declared(t) /\ \A p \in DOMAIN store : p \in Declared(t) => store[p] # None
    THEN [i \in 1..Len(RefetchOf(store, t, tm)) |-> GetSecret(RefetchOf(store, t, tm)[i], FALSE)]
         \o <<GenerateTemplate(t)>>
    ELSE <<>>
generate_templates(store, path, tm) ==
    Cat([i \in 1..Len(input.confsIter) |->
            generate_templates_for(store, path, input.confsIter[i], tm)])

\* TemplateConfs::generate_all_templates: the messages it sends, in order
generate_all_for_valued(store, t) ==
    IF \A p \in Declared(t) : p \in DOMAIN store /\ store[p] # None
    THEN <<GenerateTemplate(t)>> ELSE <<>>
generate_all_for(store, t) ==
    IF \A p \in Declared(t) : p \in DOMAIN store THEN <<GenerateTemplate(t)>> ELSE <<>>
generate_all_templates(store, iter) ==
    Cat([i \in 1..Len(iter) |-> generate_all_for(store, iter[i])])

\* ---------------------------------------------------------------- main.rs: startup
\* lines 104-123: the messages sent for the secrets of one template, and the
\* paths inserted in the store so far
\* a faulty variant: the login is asked for after the secret
RECURSIVE StartupSecrets_late(_, _)
StartupSecrets_late(paths, known) ==
    IF paths = <<>> THEN <<>>
    ELSE IF Head(paths) \in known THEN StartupSecrets_late(Tail(paths), known)
    ELSE <<GetSecret(Head(paths), FALSE)>>
         \o (IF SecretPath(Head(paths)).backend = "Vault"
             THEN <<Login(SecretPath(Head(paths)).args[1])>> ELSE <<>>)
         \o StartupSecrets_late(Tail(paths), known \cup {Head(paths)})
RECURSIVE StartupSecrets(_, _)
StartupSecrets(paths, known) ==
    IF paths = <<>> THEN <<>>
    ELSE LET path == Head(paths)
             secret == SecretPath(path)
         IN  IF path \in known THEN StartupSecrets(Tail(paths), known)
             ELSE (IF secret.backend = "Vault" THEN <<Login(secret.args[1])>> ELSE <<>>)
                  \o <<GetSecret(path, FALSE)>>
                  \o StartupSecrets(Tail(paths), known \cup {path})

\* a faulty variant: GenerateTemplate sent straight away for every job
RECURSIVE StartupScan_straight(_, _)
StartupScan_straight(order, known) ==
    IF order = <<>> THEN <<>>
    ELSE <<GenerateTemplate(Head(order))>>
         \o StartupSecrets(DeclaredEntries(Head(order)), known)
         \o StartupScan_straight(Tail(order), known \cup Declared(Head(order)))
\* lines 87-126: the messages sent while the configuration is loaded
RECURSIVE StartupScan(_, _)
StartupScan(order, known) ==
    IF order = <<>> THEN <<>>
    ELSE LET tmpl == Head(order)
         IN  IF Declared(tmpl) = {}
             THEN <<GenerateTemplate(tmpl)>> \o StartupScan(Tail(order), known)
             ELSE StartupSecrets(DeclaredEntries(tmpl), known)
                  \o StartupScan(Tail(order), known \cup Declared(tmpl))

\* the senders of messages: the loading of the configuration (lines 87-126),
\* generate_all_templates (line 128), a spawned delay_task, the GetSecret handler
Tags(msgs, tag) == [i \in 1..Len(msgs) |-> tag]

Step(op, msg) ==
    [op |-> op, msg |-> msg, fetched |-> FALSE, scheduled |-> <<>>, sent |-> <<>>,
     triggered |-> <<>>, executed |-> <<>>, s6 |-> FALSE, secrets_val |-> <<>>,
     pass |-> FALSE, handled |-> FALSE, secret |-> None, replaced |-> FALSE, cmd |-> None, stdout |-> None,
     from |-> IF msg = None THEN "" ELSE IF op = "timer" THEN "timer" ELSE Head(origin),
     stale |-> IF msg = None \/ op = "timer" THEN {} ELSE Head(stale)]

\* the configuration directory, the output files that exist when the process
\* starts, and the iteration orders of the HashMaps; the secrets map of a
\* TemplateConf iterates in the order drawn for the store
InputsOf(regs) ==
    {i \in [registry : regs,
            insertOrder : UNION {Perms(r) : r \in regs},
            confsIter : UNION {Perms(r) : r \in regs},
            secretsIter : UNION {Perms(DeclaredBy(r)) : r \in regs},
            preexisting : UNION {SUBSET FilesOf(r) : r \in regs}] :
        /\ i.insertOrder \in Perms(i.registry)
        /\ i.confsIter \in Perms(i.registry)
        /\ i.secretsIter \in Perms(DeclaredBy(i.registry))
        /\ i.preexisting \subseteq FilesOf(i.registry)}

InitOf(inputs) ==
    /\ args \in [daemon : BOOLEAN, ready_fd : {None, Some(3)}]
    /\ input \in inputs
    /\ pc = "startup"
    /\ err = None
    /\ now = 0
    /\ queue = <<>>
    /\ timers = EmptyBag
    /\ secrets = <<>>
    /\ client = [r \in {"r1"} |-> None]
    /\ checksums = [f \in Files |-> None]
    /\ disk = [f \in Files |-> IF f \in input.preexisting THEN Some(<<"old">>) ELSE None]
    /\ modes = [f \in Files |-> IF f \in input.preexisting THEN Some(OldMode) ELSE None]
    /\ first_run = TRUE
    /\ generated = 0
    /\ fd = "open"
    /\ matCount = [t \in Templates |-> 0]
    /\ passCount = 0
    /\ readyWrites = 0
    /\ origin = <<>>
    /\ stale = <<>>
    /\ last = Step("init", None)
    /\ intext = <<>>
    /\ results = <<>>

Init == InitOf(InputsOf(Registries))

\* a faulty variant: no slot is made for the paths asked for
Placeholders_none(paths) == [p \in {} |-> None]
\* lines 116-117: secrets.insert(path.clone(), None), for each path asked for
Placeholders(paths) == [p \in paths |-> None]

\* main_loop lines 84-128
Startup ==
    /\ pc = "startup"
    /\ pc' = "loop"
    /\ secrets' = Placeholders(DeclaredBy(input.registry))
    /\ queue' = StartupScan(input.insertOrder, {})
                \o generate_all_templates(secrets', input.confsIter)
    /\ origin' = Tags(StartupScan(input.insertOrder, {}), "loading")
                 \o Tags(generate_all_templates(secrets', input.confsIter), "generate_all")
    /\ stale' = Tags(queue', {})
    /\ last' = [Step("startup", None) EXCEPT !.sent = queue']
    /\ UNCHANGED <<intext, results, args, input, err, now, timers, client, checksums, disk, modes, first_run,
                   generated, fd, matCount, passCount, readyWrites>>

\* ---------------------------------------------------------------- task.rs
\* delay_task(send_message(sender, msg), dur)
Timer(msg, dur, tm) == [msg |-> msg, due |-> tm + dur]
\* a faulty variant: a task is spawned whether or not there is a delay
Schedule_always(delay, msg, tm) == <<Timer(msg, IF delay = None THEN 0 ELSE Unwrap(delay), tm)>>
Schedule(delay, msg, tm) == IF delay = None THEN <<>> ELSE <<Timer(msg, Unwrap(delay), tm)>>
RECURSIVE SeqToBag(_)
SeqToBag(s) == IF s = <<>> THEN EmptyBag ELSE SetToBag({Head(s)}) (+) SeqToBag(Tail(s))

\* the timer task wakes up and sends its message
TimerFire ==
    /\ pc = "loop"
    /\ Len(queue) < MaxQueue
    /\ \E t \in BagToSet(timers) :
        /\ now >= t.due
        /\ timers' = timers (-) SetToBag({t})
        /\ queue' = Append(queue, t.msg)
        /\ origin' = Append(origin, "timer")
        /\ stale' = Append(stale, {})
        /\ last' = [Step("timer", t.msg) EXCEPT !.sent = <<t.msg>>]
    /\ UNCHANGED <<intext, results, args, input, pc, err, secrets, client, checksums, disk, modes, first_run,
                   generated, fd, matCount, passCount, readyWrites, now>>

Tick ==
    /\ pc = "loop"
    /\ now < MaxTime
    /\ now' = now + 1
    /\ last' = Step("tick", None)
    /\ UNCHANGED <<intext, results, args, input, pc, err, queue, timers, secrets, client, checksums, disk, modes,
                   first_run, generated, fd, matCount, passCount, readyWrites, origin,
                   stale>>

\* growth of the channel and of the timer tasks is cut at the bounds
Bounded(q, ts) ==
    /\ Len(q) <= MaxQueue \/ Len(q) < Len(queue)
    /\ BagCardinality(ts) <= MaxTimers \/ BagCardinality(ts) <= BagCardinality(timers)

\* a faulty variant: the error is dropped and the loop goes on
Fail_continue(step, e) ==
    /\ queue' = Tail(queue)
    /\ origin' = Tail(origin)
    /\ stale' = Tail(stale)
    /\ last' = step
    /\ UNCHANGED <<intext, results, args, input, pc, err, now, timers, secrets, client, checksums, disk, modes,
                   first_run, generated, fd, matCount, passCount, readyWrites>>
\* an error returned by main_loop (`?`), or a panic: the process ends
Fail(step, e) ==
    /\ pc' = "stopped"
    /\ err' = Some(e)
    /\ queue' = Tail(queue)
    /\ origin' = Tail(origin)
    /\ stale' = Tail(stale)
    /\ last' = step
    /\ UNCHANGED <<intext, results, args, input, now, timers, secrets, client, checksums, disk, modes, first_run,
                   generated, fd, matCount, passCount, readyWrites>>

\* a connection opened after the readiness descriptor was closed may get its number
Reopen(f) == IF f = "closed" THEN {"closed", "reused"} ELSE {f}

\* ---------------------------------------------------------------- main.rs: Message::Login
AuthResponses == [lease_duration : {Lease}, renewable : BOOLEAN]

HandleLogin ==
    /\ pc = "loop"
    /\ queue # <<>>
    /\ Head(queue).type = "Login"
    /\ LET msg == Head(queue)
           role == msg.role
       IN  IF is_logged(client, role, now)
           THEN /\ queue' = Tail(queue)
                /\ origin' = Tail(origin)
                /\ stale' = Tail(stale)
                /\ last' = [Step("Login", msg) EXCEPT !.handled = TRUE]
                /\ UNCHANGED <<intext, results, args, input, pc, err, now, timers, secrets, client, checksums,
                               disk, modes, first_run, generated, fd, matCount, passCount, readyWrites>>
           ELSE \/ Fail(Step("Login", msg), "login")
                \/ \E resp \in AuthResponses :
                     LET auth == [lease_duration |-> resp.lease_duration,
                                  renewable |-> resp.renewable, time |-> now]
                         sched == Schedule(auth_renew_delay(auth), Login(role), now)
                     IN  /\ client' = [client EXCEPT ![role] = Some(auth)]
                         /\ timers' = timers (+) SeqToBag(sched)
                         /\ Bounded(Tail(queue), timers')
                         /\ queue' = Tail(queue)
                         /\ origin' = Tail(origin)
                         /\ stale' = Tail(stale)
                         /\ fd' \in Reopen(fd)
                         /\ last' = [Step("Login", msg) EXCEPT !.handled = TRUE,
                                        !.fetched = TRUE, !.scheduled = sched]
                         /\ UNCHANGED <<intext, results, args, input, pc, err, now, secrets, checksums, disk, modes,
                                        first_run, generated, matCount, passCount, readyWrites>>

\* ---------------------------------------------------------------- main.rs: Message::GetSecret
\* a faulty variant: a slot that is valid is fresh, due for renewal or not
Fresh_valid(store, path, tm) ==
    /\ path \in DOMAIN store
    /\ store[path] # None
    /\ is_valid(Unwrap(store[path]), tm)
\* the freshness guard of lines 162-169
Fresh(store, path, tm) ==
    LET key == SecretPath(path).path
    IN  /\ key \in DOMAIN store
        /\ store[key] # None
        /\ is_valid(Unwrap(store[key]), tm)
        /\ ~to_renew(Unwrap(store[key]), tm)

\* serde_json::from_str on a sequence of tokens: a quoted string, or an error
JsonOk(text) == Len(text) = 3 /\ text[1] = "\"" /\ text[3] = "\""
JsonValue(text) == <<text[2]>>

\* str::trim on a sequence of tokens
RECURSIVE trim_start(_)
trim_start(s) == IF s # <<>> /\ Head(s) \in Whitespace THEN trim_start(Tail(s)) ELSE s
RECURSIVE trim_end(_)
trim_end(s) ==
    IF s # <<>> /\ s[Len(s)] \in Whitespace THEN trim_end(SubSeq(s, 1, Len(s) - 1)) ELSE s
trim(s) == trim_end(trim_start(s))

Ok(secret) == [ok |-> TRUE, secret |-> secret, err |-> "", cmd |-> None, stdout |-> None]
Err(e) == [ok |-> FALSE, secret |-> SecretNew(<<>>, None, 0), err |-> e, cmd |-> None, stdout |-> None]

VaultResponses ==
    {[lease |-> None, renewable |-> FALSE],
     [lease |-> Some(Lease), renewable |-> FALSE], [lease |-> Some(Lease), renewable |-> TRUE]}

\* lines 182-197: client.get_secret_async
FetchVault(sp, tm) ==
    IF ~is_logged(client, sp.args[1], tm) THEN {Err("get_secret")}
    ELSE {Err("get_secret")}
         \cup {Ok([value |-> v, lease |-> r.lease, renewable |-> r.renewable, time |-> tm]) :
                 v \in Values, r \in VaultResponses}

\* lines 219-237
FetchEnv(sp, tm) ==
    CASE sp.args[1] = "str" -> {Ok(SecretNew(v, None, tm)) : v \in Values}
      [] sp.args[1] = "js" ->
            {IF JsonOk(c) THEN Ok(SecretNew(JsonValue(c), None, tm)) ELSE Err("parse") :
                c \in Contents}
      [] OTHER -> {Err("ExpectedArg")}

\* lines 247-274
FetchFile(sp, tm) ==
    {Err("open")} \cup
    CASE sp.args[1] = "str" -> {Ok(SecretNew(c, None, tm)) : c \in Contents}
      [] sp.args[1] = "js" ->
            {IF JsonOk(c) THEN Ok(SecretNew(JsonValue(c), None, tm)) ELSE Err("parse") :
                c \in Contents}
      [] OTHER -> {Err("ExpectedArg")}

\* a faulty variant: no command output carries a lease
ExeLease_static(sp) ==
    IF Len(sp.args) < 2 THEN Some(None)
    ELSE CASE sp.args[2] = "static" -> Some(None)
           [] sp.args[2] = "dynamic" -> Some(None)
           [] OTHER -> None
\* lines 335-346
ExeLease(sp) ==
    IF Len(sp.args) < 2 THEN Some(None)
    ELSE CASE sp.args[2] = "static" -> Some(None)
           [] sp.args[2] = "dynamic" -> Some(Some(0))
           [] OTHER -> None

\* lines 317-334: the value of an executed command; with "js" the code parses
\* the environment variable named by the command line, "" when it is unset
ExeValue(sp, stdout) ==
    CASE sp.args[1] = "str" -> {Some(trim(stdout))}
      [] sp.args[1] = "js" ->
            {Some(<<"">>)} \cup {IF JsonOk(c) THEN Some(JsonValue(c)) ELSE None : c \in Contents}
      [] OTHER -> {None}

StdoutsOf(sp) == IF sp.args[1] = "js" THEN Stdouts \cup JsonStdouts ELSE Stdouts

\* lines 284-346; cmd: the command line handed to cmd.output(), run as it is
\* or through sudo -u nobody
ExeRun(sp, tm) ==
    {Err("CmdError")} \cup
    UNION {{[(IF v = None THEN Err("value")
              ELSE IF ExeLease(sp) = None THEN Err("ExpectedArg")
              ELSE Ok(SecretNew(Unwrap(v), Unwrap(ExeLease(sp)), tm)))
             EXCEPT !.stdout = Some(out)] : v \in ExeValue(sp, out)} : out \in StdoutsOf(sp)}
\* a faulty variant: the command is run wherever it is
FetchExe_unchecked(sp, tm) ==
    LET argv == split_whitespace(sp.full_path)
    IN  {[o EXCEPT !.cmd = Some(argv)] : o \in ExeRun(sp, tm)}
FetchExe(sp, tm) ==
    LET argv == split_whitespace(sp.full_path)
    IN  IF ~starts_with_slash(argv[1]) THEN {Err("RelativePath")}
        ELSE {[o EXCEPT !.cmd = Some(argv)] : o \in ExeRun(sp, tm)}

\* lines 181-355: the outcomes of the backend dispatch
Fetch(sp, tm) ==
    CASE sp.backend = "Vault" -> FetchVault(sp, tm)
      [] sp.backend = "Env" -> FetchEnv(sp, tm)
      [] sp.backend = "File" -> FetchFile(sp, tm)
      [] sp.backend = "Exe" -> FetchExe(sp, tm)

\* lines 199-209: the renewal timer (Vault only)
Renewal_untriggered(sp, path, secret, tm) ==
    IF sp.backend = "Vault" THEN Schedule(renew_delay(secret), GetSecret(path, FALSE), tm)
    ELSE <<>>
Renewal(sp, path, secret, tm) ==
    IF sp.backend = "Vault" THEN Schedule(renew_delay(secret), GetSecret(path, TRUE), tm)
    ELSE <<>>

\* lines 211-216 (and 238-244, 275-281, 347-353): the messages sent after the fetch
Regenerate_unchanged(store, res, path, gen_tmpl, tm) ==
    IF gen_tmpl THEN generate_templates(store, path, tm) ELSE <<>>
Regenerate(store, res, path, gen_tmpl, tm) ==
    IF res /\ gen_tmpl THEN generate_templates(store, path, tm) ELSE <<>>

\* history: the paths of each message sent by generate_templates whose secret is
\* absent or not valid when it is sent, and what a fetch takes off them
StaleOf(store, msgs, tm) ==
    [i \in DOMAIN msgs |->
        IF msgs[i].type = "GenerateTemplate"
        THEN {p \in Declared(msgs[i].tmpl) : store[p] = None \/ ~is_valid(Unwrap(store[p]), tm)}
        ELSE {}]
Fetched(sets, path) == [i \in DOMAIN sets |-> sets[i] \ {path}]

HandleGetSecret ==
    /\ pc = "loop"
    /\ queue # <<>>
    /\ Head(queue).type = "GetSecret"
    /\ LET msg == Head(queue)
           path == msg.path
           sp == SecretPath(path)
       IN  IF Fresh(secrets, path, now)
           THEN /\ queue' = Tail(queue)
                /\ origin' = Tail(origin)
                /\ stale' = Tail(stale)
                /\ last' = [Step("GetSecret", msg) EXCEPT !.handled = TRUE]
                /\ UNCHANGED <<intext, results, args, input, pc, err, now, timers, secrets, client, checksums,
                               disk, modes, first_run, generated, fd, matCount, passCount, readyWrites>>
           ELSE \E out \in Fetch(sp, now) :
                  IF ~out.ok THEN Fail([Step("GetSecret", msg) EXCEPT !.fetched = TRUE,
                                                                       !.cmd = out.cmd,
                                                                       !.stdout = out.stdout], out.err)
                  ELSE LET sched == Renewal(sp, path, out.secret, now)
                           r == replace(secrets, path, out.secret)
                           sent == Regenerate(r[1], r[2], path, msg.gen_tmpl, now)
                       IN  /\ secrets' = r[1]
                           /\ timers' = timers (+) SeqToBag(sched)
                           /\ queue' = Tail(queue) \o sent
                           /\ origin' = Tail(origin) \o Tags(sent, "generate_templates")
                           /\ stale' = Fetched(Tail(stale), path) \o StaleOf(r[1], sent, now)
                           /\ Bounded(queue', timers')
                           /\ fd' \in (IF sp.backend = "Vault" THEN Reopen(fd) ELSE {fd})
                           /\ last' = [Step("GetSecret", msg) EXCEPT !.handled = TRUE,
                                          !.fetched = TRUE, !.scheduled = sched, !.sent = sent,
                                          !.secret = Some(out.secret), !.replaced = r[2],
                                          !.cmd = out.cmd, !.stdout = out.stdout]
                           /\ UNCHANGED <<intext, results, args, input, pc, err, now, client, checksums, disk, modes,
                                          first_run, generated, matCount, passCount, readyWrites>>

\* u32::from_str_radix(s, 8) on a sequence of characters: None for an error
OctalDigit(c) ==
    CASE c = "0" -> 0 [] c = "1" -> 1 [] c = "2" -> 2 [] c = "3" -> 3
      [] c = "4" -> 4 [] c = "5" -> 5 [] c = "6" -> 6 [] c = "7" -> 7
RECURSIVE octal(_)
octal(s) == IF s = <<>> THEN 0 ELSE 8 * octal(SubSeq(s, 1, Len(s) - 1)) + OctalDigit(s[Len(s)])
from_str_radix(s) ==
    IF s # <<>> /\ \A i \in DOMAIN s : s[i] \in {"0", "1", "2", "3", "4", "5", "6", "7"}
    THEN Some(octal(s)) ELSE None

\* ---------------------------------------------------------------- checksum.rs, s6.rs
Sha1(content) == <<"sha1", content>>

\* writeln!(file, "{}", data)
Written(data) == <<data, "\n">>

\* s6_ready: a newline goes to whatever holds the descriptor number, which is
\* closed when the File is dropped
s6_writes(ready_fd, f) == IF ready_fd # None /\ f # "closed" THEN 1 ELSE 0
s6_close(ready_fd, f) == IF ready_fd # None THEN "closed" ELSE f

\* ---------------------------------------------------------------- main.rs: Message::GenerateTemplate
\* a faulty variant: every name bound to the value of the first entry of the store
secrets_val_first(store, t, paths) ==
    [n \in {TemplateConf(t).secrets[p] : p \in Declared(t)} |-> Unwrap(store[paths[1]]).value]
\* lines 388-398: the "secrets" extVar, built in the store's iteration order
RECURSIVE secrets_val(_, _, _)
secrets_val(store, t, paths) ==
    IF paths = <<>> THEN <<>>
    ELSE LET path == paths[Len(paths)]
             rest == secrets_val(store, t, SubSeq(paths, 1, Len(paths) - 1))
         IN  IF path \in Declared(t)
             THEN (TemplateConf(t).secrets[path] :> Unwrap(store[path]).value) @@ rest
             ELSE rest

\* the template evaluator: the data of each file, a function of the bindings
Manifest(t, f, bindings) == IF f = "o5" THEN <<f>> ELSE <<f, bindings>>

\* lines 433-469: one round of the file loop
FileState(fr, d, m, c, ch) ==
    [first_run |-> fr, disk |-> d, modes |-> m, checksums |-> c, changes |-> ch]
NotFirstRun_never(fr, exists) == fr
NotFirstRun(fr, exists) == IF fr /\ exists THEN FALSE ELSE fr
\* lines 452 and 457-460: File::create keeps the mode of a file that exists and
\* gives CreateMode to a new one; set_mode changes the Permissions value read
\* from the metadata, which is then dropped
Create(m) == IF m # None THEN m ELSE Some(CreateMode)
set_mode(perms, mode) == mode
WriteFile(st, t, f, data) ==
    LET digest == Some(Sha1(Written(data)))
        mode == from_str_radix(TemplateMode(t))
        perms == IF mode # None THEN set_mode(Unwrap(Create(st.modes[f])), Unwrap(mode))
                 ELSE Unwrap(Create(st.modes[f]))
    IN  FileState(NotFirstRun(st.first_run, st.disk[f] # None),
                  [st.disk EXCEPT ![f] = Some(Written(data))],
                  [st.modes EXCEPT ![f] = Create(st.modes[f])],
                  [st.checksums EXCEPT ![f] = digest],
                  st.changes \/ st.checksums[f] # digest)
RECURSIVE WriteFiles(_, _, _, _)
WriteFiles(st, t, bindings, files) ==
    IF files = <<>> THEN st
    ELSE WriteFiles(WriteFile(st, t, Head(files), Manifest(t, Head(files), bindings)),
                    t, bindings, Tail(files))

\* lines 471-474
ModifiedHook_unchanged(t, changes, fr) == IF ~fr THEN <<"modified">> ELSE <<>>
ModifiedHook(t, changes, fr) == IF changes /\ ~fr THEN <<"modified">> ELSE <<>>

\* lines 479: the pass is counted as complete
PassComplete(n) == n = confs_len

\* lines 488-494
Quit(daemon, store) == ~daemon \/ ~any_leased(store)

Executed(t, hook_types) == Cat([i \in 1..Len(hook_types) |-> trigger(t, hook_types[i])])

\* conf.rs lines 141-144: what cmd.output() may return for each executed command:
\* a zero status, a non-zero status, or an error (the command could not be spawned)
HookOutcomes == {"ok", "nonzero", "spawn"}
Outcomes(cmds) ==
    {[i \in 1..Len(cmds) |-> [tmpl |-> cmds[i].tmpl, hook |-> cmds[i].hook,
                              argv |-> cmds[i].argv, outcome |-> o[i]]] :
        o \in [1..Len(cmds) -> HookOutcomes]}

HandleGenerateTemplate ==
    /\ pc = "loop"
    /\ queue # <<>>
    /\ Head(queue).type = "GenerateTemplate"
    /\ matCount[Head(queue).tmpl] < MaxMat
    /\ LET msg == Head(queue)
           t == msg.tmpl
           files == TemplateConf(t).files
           step == Step("GenerateTemplate", msg)
       IN  IF \E p \in DOMAIN secrets : secrets[p] = None
           THEN Fail(step, "panic")
           ELSE LET bindings == secrets_val(secrets, t, input.secretsIter)
                    step1 == [step EXCEPT !.secrets_val = Some(bindings)]
                    st0 == FileState(first_run, disk, modes, checksums, FALSE)
                IN  \/ Fail(step1, "template")
                    \/ \E k \in 1..Len(files) :
                         \* File::create fails on the k-th file
                         LET st == WriteFiles(st0, t, bindings, SubSeq(files, 1, k - 1))
                         IN  /\ pc' = "stopped"
                             /\ err' = Some("write")
                             /\ queue' = Tail(queue)
                             /\ origin' = Tail(origin)
                             /\ stale' = Tail(stale)
                             /\ first_run' = NotFirstRun(st.first_run, st.disk[files[k]] # None)
                             /\ disk' = st.disk
                             /\ modes' = st.modes
                             /\ checksums' = st.checksums
                             /\ last' = step1
                             /\ UNCHANGED <<intext, results, args, input, now, timers, secrets, client, generated,
                                            fd, matCount, passCount, readyWrites>>
                    \/ LET st == WriteFiles(st0, t, bindings, files)
                           hooks1 == ModifiedHook(t, st.changes, st.first_run)
                           pass == PassComplete(generated + 1)
                           hooks == IF pass THEN hooks1 \o <<"ready">> ELSE hooks1
                       IN  /\ disk' = st.disk
                           /\ modes' = st.modes
                           /\ checksums' = st.checksums
                           /\ matCount' = [matCount EXCEPT ![t] = @ + 1]
                           /\ generated' = IF pass THEN 0 ELSE generated + 1
                           /\ first_run' = IF pass THEN FALSE ELSE st.first_run
                           /\ passCount' = IF pass THEN passCount + 1 ELSE passCount
                           /\ readyWrites' = IF pass THEN readyWrites + s6_writes(args.ready_fd, fd)
                                             ELSE readyWrites
                           /\ fd' = IF pass THEN s6_close(args.ready_fd, fd) ELSE fd
                           /\ pc' = IF pass /\ Quit(args.daemon, secrets) THEN "stopped" ELSE "loop"
                           /\ queue' = Tail(queue)
                           /\ origin' = Tail(origin)
                           /\ stale' = Tail(stale)
                           /\ \E ran \in Outcomes(Executed(t, hooks)) :
                                last' = [step1 EXCEPT !.handled = TRUE, !.triggered = hooks,
                                           !.executed = ran, !.pass = pass,
                                           !.s6 = pass /\ s6_writes(args.ready_fd, fd) = 1]
                           /\ UNCHANGED <<intext, results, args, input, err, now, timers, secrets, client>>

Next ==
    \/ Startup
    \/ TimerFire
    \/ Tick
    \/ HandleLogin
    \/ HandleGetSecret
    \/ HandleGenerateTemplate

Spec == Init /\ [][Next]_vars

\* daemon runs over one job with two leased secrets, on an initial install
InitTwoLeases ==
    InitOf(InputsOf({{"t6"}})) /\ args.daemon /\ args.ready_fd # None /\ input.preexisting = {}
SpecTwoLeases == InitTwoLeases /\ [][Next]_vars

\* the same runs when every timer task sends its message in the second it is due
TickOnTime == (\A t \in BagToSet(timers) : t.due > now) /\ Tick
NextOnTime ==
    \/ Startup
    \/ TimerFire
    \/ TickOnTime
    \/ HandleLogin
    \/ HandleGetSecret
    \/ HandleGenerateTemplate
SpecTwoLeasesOnTime == InitTwoLeases /\ [][NextOnTime]_vars

\* runs over three jobs, one of them without secrets, on an initial install
InitThreeJobs ==
    InitOf(InputsOf({{"t1", "t2", "t5"}})) /\ args.ready_fd # None /\ input.preexisting = {}
SpecThreeJobs == InitThreeJobs /\ [][Next]_vars

\* runs that are not in daemon mode, the broker handling every message it
\* receives and every timer task sending its message: over no job at all,
\* over a job without secrets, over jobs with secrets
InitOnce == InitOf(InputsOf({{}, {"t1"}, {"t2"}, {"t1", "t4"}})) /\ ~args.daemon
Handle == HandleLogin \/ HandleGetSecret \/ HandleGenerateTemplate
SpecOnce ==
    /\ InitOnce
    /\ [][Next]_vars
    /\ WF_vars(Startup) /\ WF_vars(Handle) /\ WF_vars(TimerFire)

\* runs over jobs whose secrets are command outputs: renewed at every use
\* (dynamic), fetched once (static, or no second argument), or named by a
\* relative command line
InitExe == InitOf(InputsOf({{"t3"}, {"t7"}, {"t8"}, {"t9"}, {"t1", "t7"}, {"t10"}}))
SpecExe == InitExe /\ [][Next]_vars

\* ---------------------------------------------------------------- secret.rs
\* a string is a sequence of tokens: a delimiter, another character, or a word
\* of letters
progvars == <<args, input, pc, err, now, queue, timers, secrets, client, checksums,
              disk, modes, first_run, generated, fd, matCount, passCount, readyWrites,
              origin, stale, last>>
Delims == {":", ",", "="}
Letters == {"vault", "env", "file", "x", "a", "k", "w", "p"}

\* str::split: the pieces between the separators, one piece for the empty string
RECURSIVE split(_, _)
split(s, sep) ==
    IF \E i \in DOMAIN s : s[i] = sep
    THEN LET i == CHOOSE i \in DOMAIN s : s[i] = sep /\ \A j \in 1..(i - 1) : s[j] # sep
         IN  <<SubSeq(s, 1, i - 1)>> \o split(SubSeq(s, i + 1, Len(s)), sep)
    ELSE <<s>>
\* [&str]::join
RECURSIVE join(_, _)
join(ss, sep) ==
    IF ss = <<>> THEN <<>>
    ELSE IF Len(ss) = 1 THEN ss[1]
    ELSE ss[1] \o <<sep>> \o join(Tail(ss), sep)

\* lines 64-68: the lookup list
BACKENDS == <<<<"vault", "Vault">>, <<"env", "Env">>, <<"file", "File">>>>
\* lines 70-79: Display for Backend
BackendDisplay(b) ==
    LET hits == {i \in DOMAIN BACKENDS : BACKENDS[i][2] = b}
    IN  IF hits = {} THEN <<>> ELSE <<BACKENDS[CHOOSE i \in hits : \A j \in hits : i <= j][1]>>
\* lines 82-97: Backend::try_from, the first entry the string starts with
BackendTryFrom(backend_str) ==
    LET hits == {i \in DOMAIN BACKENDS : backend_str # <<>> /\ backend_str[1] = BACKENDS[i][1]}
    IN  IF hits = {} THEN None ELSE Some(BACKENDS[CHOOSE i \in hits : \A j \in hits : i <= j][2])
\* lines 99-104
SecretPathOf(b, a, kwargs, path) ==
    [backend |-> b, args |-> a, kwargs |-> kwargs, path |-> path]
\* lines 107-117: Display for SecretPath
to_string(sp) ==
    BackendDisplay(sp.backend) \o <<":">> \o join(sp.args, ",")
    \o (IF sp.kwargs = None THEN <<>>
        ELSE Cat([i \in DOMAIN Unwrap(sp.kwargs) |->
                    <<",">> \o Unwrap(sp.kwargs)[i][1] \o <<"=">> \o Unwrap(sp.kwargs)[i][2]]))
    \o <<":">> \o sp.path

POk(v) == [ok |-> TRUE, value |-> v, err |-> ""]
PErr(e) == [ok |-> FALSE, value |-> <<>>, err |-> e]

\* ---------------------------------------------------------------- parser_simple.rs
\* str::find: the position of the first occurrence, 0 for none
find(s, c) ==
    IF \E i \in DOMAIN s : s[i] = c
    THEN CHOOSE i \in DOMAIN s : s[i] = c /\ \A j \in 1..(i - 1) : s[j] # c
    ELSE 0
\* lines 24-33
SimpleArgs(pieces) == SelectSeq(pieces, LAMBDA piece : find(piece, "=") = 0)
SimpleKwargs(pieces) ==
    LET kw == SelectSeq(pieces, LAMBDA piece : find(piece, "=") # 0)
    IN  [i \in DOMAIN kw |-> <<SubSeq(kw[i], 1, find(kw[i], "=") - 1),
                               SubSeq(kw[i], find(kw[i], "=") + 1, Len(kw[i]))>>]
\* lines 12-44
try_from_simple(path) ==
    LET it == split(path, ":")
        b == BackendTryFrom(it[1])
        pieces == split(it[2], ",")
        kwargs == SimpleKwargs(pieces)
    IN  IF b = None THEN PErr("UnknowBackend")
        ELSE IF Len(it) < 2 THEN PErr("NoArgs")
        ELSE IF Len(it) < 3 THEN PErr("NoPath")
        ELSE IF Len(it) > 3 THEN PErr("ExtraData")
        ELSE POk(SecretPathOf(Unwrap(b), SimpleArgs(pieces),
                              IF kwargs = <<>> THEN None ELSE Some(kwargs), it[3]))

\* ---------------------------------------------------------------- parser.rs
\* IResult: the rest of the input and the output, or an error
IOk(rest, out) == [ok |-> TRUE, rest |-> rest, out |-> out, err |-> ""]
IErr(e) == [ok |-> FALSE, rest |-> <<>>, out |-> <<>>, err |-> e]
Others == {"/"}
NonDelims == Letters \cup Others
\* the length of the longest prefix of s made of tokens of S
SpanLen(s, S) ==
    CHOOSE n \in 0..Len(s) : (\A i \in 1..n : s[i] \in S) /\ (n = Len(s) \/ s[n + 1] \notin S)
tag(inp, t) == IF inp # <<>> /\ inp[1] = t THEN IOk(Tail(inp), <<t>>) ELSE IErr("Nom")
alpha1(inp) ==
    IF SpanLen(inp, Letters) = 0 THEN IErr("Nom")
    ELSE IOk(SubSeq(inp, SpanLen(inp, Letters) + 1, Len(inp)),
             SubSeq(inp, 1, SpanLen(inp, Letters)))
\* lines 90-93: recognize(many1(is_not(":,=")))
literal(inp) ==
    IF SpanLen(inp, NonDelims) = 0 THEN IErr("Nom")
    ELSE IOk(SubSeq(inp, SpanLen(inp, NonDelims) + 1, Len(inp)),
             SubSeq(inp, 1, SpanLen(inp, NonDelims)))
\* lines 95-98
backend(inp) ==
    LET r == alpha1(inp)
    IN  IF ~r.ok THEN r
        ELSE IF BackendTryFrom(r.out) = None THEN IErr("UnknowBackend")
        ELSE IOk(r.rest, Unwrap(BackendTryFrom(r.out)))
\* lines 100-103
kwarg(inp) ==
    LET k == literal(inp)
        e == tag(k.rest, "=")
        v == literal(e.rest)
    IN  IF k.ok /\ e.ok /\ v.ok THEN IOk(v.rest, [kw |-> TRUE, k |-> k.out, v |-> v.out])
        ELSE IErr("Nom")
\* lines 105-109
arg(inp) ==
    LET l == literal(inp)
    IN  IF l.ok THEN IOk(l.rest, [kw |-> FALSE, k |-> l.out, v |-> <<>>]) ELSE l
\* lines 111-113: separated_list1(tag(","), alt((kwarg, arg)))
kwarg_or_arg(inp) == IF kwarg(inp).ok THEN kwarg(inp) ELSE arg(inp)
RECURSIVE separated_list(_, _)
separated_list(inp, acc) ==
    LET sep == tag(inp, ",")
        el == kwarg_or_arg(sep.rest)
    IN  IF sep.ok /\ el.ok THEN separated_list(el.rest, Append(acc, el.out))
        ELSE IOk(inp, acc)
arg1(inp) ==
    LET el == kwarg_or_arg(inp)
    IN  IF ~el.ok THEN el ELSE separated_list(el.rest, <<el.out>>)
\* lines 116-135: <<args, kwargs>>
splitargs(a) ==
    LET args_ == SelectSeq(a, LAMBDA x : ~x.kw)
        kwargs_ == SelectSeq(a, LAMBDA x : x.kw)
    IN  <<[i \in DOMAIN args_ |-> args_[i].k],
          IF kwargs_ = <<>> THEN None
          ELSE Some([i \in DOMAIN kwargs_ |-> <<kwargs_[i].k, kwargs_[i].v>>])>>
\* lines 137-143
secret_path(inp) ==
    LET b == backend(inp)
        c1 == tag(b.rest, ":")
        a == arg1(c1.rest)
        c2 == tag(a.rest, ":")
        p == literal(c2.rest)
    IN  IF ~b.ok THEN b
        ELSE IF ~c1.ok THEN IErr("NoArgs")
        ELSE IF ~a.ok THEN a
        ELSE IF ~c2.ok THEN IErr("NoPath")
        ELSE IF ~p.ok THEN p
        ELSE IOk(p.rest, <<b.out, a.out, p.out>>)
\* lines 59-79
try_from(path) ==
    IF path = <<>> THEN PErr("NoBackend")
    ELSE LET r == secret_path(path)
         IN  IF ~r.ok THEN PErr(r.err)
             ELSE IF r.rest # <<>> THEN PErr("ExtraData")
             ELSE POk(SecretPathOf(r.out[1], splitargs(r.out[2])[1],
                                   splitargs(r.out[2])[2], r.out[3]))

\* ---------------------------------------------------------------- the parsers alone
\* the strings given to SecretPath::try_from: up to four segments joined by ":"
MaxArgs == 2
BackendSegs == {<<>>, <<"vault">>, <<"env">>, <<"vault", "x">>, <<"x">>, <<"vault", "/">>}
ArgPieces == {<<>>, <<"a">>, <<"k", "=", "w">>, <<"k", "=">>, <<"k", "=", "w", "=", "a">>}
ArgSegs == {join(ps, ",") : ps \in UNION {[1..n -> ArgPieces] : n \in 1..MaxArgs}}
PathSegs == {<<>>, <<"p">>, <<"p", "/", "a">>, <<"p", ",", "a">>, <<"p", "=", "a">>}
ExtraSegs == {<<>>, <<"p">>}
SecretPathTexts ==
    BackendSegs
    \cup {join(<<b, a>>, ":") : b \in BackendSegs, a \in ArgSegs}
    \cup {join(<<b, a, p>>, ":") : b \in BackendSegs, a \in ArgSegs, p \in PathSegs}
    \cup {join(<<b, a, p, e>>, ":") :
            b \in BackendSegs, a \in ArgSegs, p \in PathSegs, e \in ExtraSegs}

\* no broker runs: the program variables keep the values they have here
Idle ==
    /\ args = [daemon |-> FALSE, ready_fd |-> None]
    /\ input = [registry |-> {}, insertOrder |-> <<>>, confsIter |-> <<>>,
                secretsIter |-> <<>>, preexisting |-> {}]
    /\ pc = "stopped"
    /\ err = None
    /\ now = 0
    /\ queue = <<>>
    /\ timers = EmptyBag
    /\ secrets = <<>>
    /\ client = [r \in {"r1"} |-> None]
    /\ checksums = [f \in Files |-> None]
    /\ disk = [f \in Files |-> None]
    /\ modes = [f \in Files |-> None]
    /\ first_run = TRUE
    /\ generated = 0
    /\ fd = "open"
    /\ matCount = [t \in Templates |-> 0]
    /\ passCount = 0
    /\ readyWrites = 0
    /\ origin = <<>>
    /\ stale = <<>>
    /\ last = Step("init", None)

Applied(name, value) == (name :> value) @@ results

InitParse == Idle /\ intext \in SecretPathTexts /\ results = <<>>
\* parser_simple.rs: SecretPath::try_from
TryFromSimple ==
    /\ "simple" \notin DOMAIN results
    /\ results' = Applied("simple", try_from_simple(intext))
    /\ UNCHANGED <<intext, progvars>>
\* parser.rs: SecretPath::try_from
TryFrom ==
    /\ "nom" \notin DOMAIN results
    /\ results' = Applied("nom", try_from(intext))
    /\ UNCHANGED <<intext, progvars>>
\* secret.rs: to_string of a value a parser returned
Display ==
    /\ \E n \in {"simple", "nom"} :
          /\ n \in DOMAIN results /\ results[n].ok
          /\ (IF n = "simple" THEN "simple_string" ELSE "nom_string") \notin DOMAIN results
          /\ results' = Applied(IF n = "simple" THEN "simple_string" ELSE "nom_string",
                                to_string(results[n].value))
    /\ UNCHANGED <<intext, progvars>>
NextParse == TryFromSimple \/ TryFrom \/ Display
SpecParse == InitParse /\ [][NextParse]_vars

\* ---------------------------------------------------------------- subst.rs
\* here a string is a sequence of characters
Str(chunk) == [type |-> "Str", s |-> chunk]
Var(name) == [type |-> "Var", s |-> name]
BraceError == [type |-> "BraceError", s |-> <<>>]

\* str::find of a pattern: the position of the first occurrence, 0 for none
Matches(s, pat) == {i \in 1..(Len(s) - Len(pat) + 1) : SubSeq(s, i, i + Len(pat) - 1) = pat}
find_str(s, pat) ==
    IF Matches(s, pat) = {} THEN 0
    ELSE CHOOSE i \in Matches(s, pat) : \A j \in Matches(s, pat) : i <= j

\* the methods of SubstIterator: <<the remainder afterwards, the token returned>>
\* lines 20-24
yield_remainder(remainder) == <<<<>>, Some(Str(remainder))>>
\* a faulty variant: the closing brace is left in the remainder
yield_var_open(remainder) ==
    LET end == find_str(remainder, <<"}">>)
    IN  IF end # 0
        THEN <<SubSeq(remainder, end, Len(remainder)), Some(Var(SubSeq(remainder, 3, end - 1)))>>
        ELSE <<<<>>, Some(BraceError)>>
\* lines 26-35
yield_var(remainder) ==
    LET end == find_str(remainder, <<"}">>)
    IN  IF end # 0
        THEN <<SubSeq(remainder, end + 1, Len(remainder)),
               Some(Var(SubSeq(remainder, 3, end - 1)))>>
        ELSE <<<<>>, Some(BraceError)>>
\* lines 37-41
yield_str(remainder, end) ==
    <<SubSeq(remainder, end, Len(remainder)), Some(Str(SubSeq(remainder, 1, end - 1)))>>
\* lines 47-60: Iterator::next
next(remainder) ==
    IF remainder = <<>> THEN <<remainder, None>>
    ELSE IF find_str(remainder, <<"$", "{">>) = 1 THEN yield_var(remainder)
    ELSE IF find_str(remainder, <<"$", "{">>) = 0 THEN yield_remainder(remainder)
    ELSE yield_str(remainder, find_str(remainder, <<"$", "{">>))

\* the strings given to SubstIterator::new
MaxText == 5
SubstChars == {"$", "{", "}", "a"}
SubstTexts == UNION {[1..n -> SubstChars] : n \in 0..MaxText}

\* lines 16-18: SubstIterator::new
InitSubst ==
    /\ Idle
    /\ intext \in SubstTexts
    /\ results = [remainder |-> intext, tokens |-> <<>>, done |-> FALSE]
\* one call of next by the consumer (collect, or the loop of subst_envar)
IterNext ==
    /\ "done" \in DOMAIN results /\ ~results.done
    /\ results' = [remainder |-> next(results.remainder)[1],
                   tokens |-> results.tokens \o next(results.remainder)[2],
                   done |-> next(results.remainder)[2] = None]
    /\ UNCHANGED <<intext, progvars>>
SpecSubst == InitSubst /\ [][IterNext]_vars /\ WF_vars(IterNext)

\* ================================================================ claims
Lease0(store) == \E p \in DOMAIN store : store[p] # None /\ Unwrap(store[p]).lease = Some(0)
Leased(store) == \E p \in DOMAIN store : store[p] # None /\ Unwrap(store[p]).lease # None
Occurs(seq, x) == Cardinality({i \in DOMAIN seq : seq[i] = x})
\* the passes counted before the last step
PassesBefore == IF last.pass THEN passCount - 1 ELSE passCount

\* C1: in non-daemon mode, when the loop has exited without error, every job
\* of the registry has been materialized exactly once
C1_EveryJobOnce ==
    (pc = "stopped" /\ err = None /\ ~args.daemon) =>
        \A t \in input.registry : matCount[t] = 1

\* C2: in daemon mode, the handler that completes the first pass (the first
\* time the pass counter reaches the number of jobs, or the first time every
\* job has been materialized) stops the broker iff no stored secret has a
\* lease; with a leased secret (a 0 second lease included) the broker goes on
FirstPassCompletes ==
    /\ last.op = "GenerateTemplate" /\ last.handled
    /\ \/ last.pass /\ passCount = 1
       \/ /\ \A t \in input.registry : matCount[t] >= 1
          /\ matCount[last.msg.tmpl] = 1
C2_DaemonExitIffNoLease ==
    (args.daemon /\ FirstPassCompletes) =>
        /\ err = None
        /\ pc = "stopped" <=> ~Leased(secrets)
        /\ pc = "loop" <=> Leased(secrets)
C2_Witness ==
    /\ args.daemon /\ last.op = "GenerateTemplate" /\ last.pass /\ passCount = 1
    /\ pc = "loop" /\ Lease0(secrets)

\* C3: handling FetchSecret(path, t) while the slot of path holds a valid
\* secret that is not to renew fetches nothing, schedules nothing, sends
\* nothing and leaves the store unchanged
SlotFresh(path) ==
    /\ path \in DOMAIN secrets
    /\ secrets[path] # None
    /\ is_valid(Unwrap(secrets[path]), now)
    /\ ~to_renew(Unwrap(secrets[path]), now)
C3_FreshFetchIsNoOp ==
    [][(/\ pc = "loop" /\ queue # <<>> /\ Head(queue).type = "GetSecret"
        /\ SlotFresh(Head(queue).path)
        /\ last'.op = "GetSecret")
       => (/\ ~last'.fetched
           /\ secrets' = secrets
           /\ timers' = timers
           /\ queue' = Tail(queue))]_vars

\* C4: a fetch that returns a renewable secret with a positive lease adds
\* exactly one timer, FetchSecret(path, true) due at two thirds of the lease
\* (whole seconds); a fetch that returns a non-renewable secret adds none
C4_RenewalTimer ==
    [][(last'.op = "GetSecret" /\ last'.handled /\ last'.fetched) =>
        LET path == last'.msg.path
            s == Unwrap(secrets'[path])
        IN  /\ (s.renewable /\ s.lease # None /\ Unwrap(s.lease) > 0) =>
                  timers' = timers (+) SetToBag({[msg |-> GetSecret(path, TRUE),
                                                  due |-> now + (2 * Unwrap(s.lease)) \div 3]})
            /\ ~s.renewable => timers' = timers]_vars
C4_Witness ==
    /\ last.op = "GetSecret" /\ last.handled /\ last.fetched
    /\ Unwrap(secrets[last.msg.path]).renewable
    /\ BagIn([msg |-> GetSecret(last.msg.path, TRUE), due |-> now + (2 * Lease) \div 3], timers)

\* C5: whenever GenerateTemplate(job) is handled, every declared secret of
\* the job is present in the store, and the bindings given to the evaluator
\* are the store's values of the declared secrets under their binding names
C5_BindingsFromStore ==
    last.op = "GenerateTemplate" =>
        LET t == last.msg.tmpl
            names == TemplateConf(t).secrets
        IN  /\ \A p \in Declared(t) : p \in DOMAIN secrets /\ secrets[p] # None
            /\ last.secrets_val # None =>
                 LET b == Unwrap(last.secrets_val)
                 IN  /\ DOMAIN b = {names[p] : p \in Declared(t)}
                     /\ \A p \in Declared(t) : b[names[p]] = Unwrap(secrets[p]).value
C5_Witness ==
    /\ last.op = "GenerateTemplate" /\ last.handled
    /\ Cardinality(Declared(last.msg.tmpl)) = 2
    /\ \E p, q \in Declared(last.msg.tmpl) :
          Unwrap(secrets[p]).value # Unwrap(secrets[q]).value

\* C6: FetchSecret(path, true) that obtains the stored payload again sends no
\* GenerateTemplate; with another payload (or an empty slot) it sends one for
\* every job that declares path and has all its declared secrets present
IsGen(m) == m.type = "GenerateTemplate"
C6_RegenerateOnChange ==
    [][(last'.op = "GetSecret" /\ last'.handled /\ last'.fetched /\ last'.msg.gen_tmpl) =>
        LET path == last'.msg.path
            gens == SelectSeq(last'.sent, IsGen)
            ready == {t \in input.registry :
                        /\ path \in Declared(t)
                        /\ \A p \in Declared(t) : secrets'[p] # None}
        IN  /\ queue' = Tail(queue) \o last'.sent
            /\ IF secrets[path] # None
                  /\ Unwrap(secrets[path]).value = Unwrap(secrets'[path]).value
               THEN gens = <<>>
               ELSE /\ {gens[i].tmpl : i \in DOMAIN gens} = ready
                    /\ Len(gens) = Cardinality(ready)]_vars
C6_Witness ==
    /\ last.op = "GetSecret" /\ last.handled /\ last.fetched /\ last.msg.gen_tmpl
    /\ last.sent = <<>>

\* "fired" is read as Hooks::trigger(MODIFIED) being called; the command
\* runs when the job has a modified hook whose first word is absolute
Fired(step) == Occurs(step.triggered, "modified")
Ran(step) == Cardinality({i \in DOMAIN step.executed : step.executed[i].hook = "modified"})
ModifiedRunnable(t) ==
    LET c == TemplateConf(t).hooks.modified
    IN  c # None /\ trim_start(Unwrap(c)) # <<>> /\ Head(trim_start(Unwrap(c))) = "/"
FoundExisting(t) == \E f \in Range(TemplateConf(t).files) : disk[f] # None
NewDigest(t) ==
    \E f \in Range(TemplateConf(t).files) : checksums[f] # Some(Sha1(Unwrap(disk'[f])))

\* C7 (as claimed): in the first pass, a materialization that finds one of its
\* output paths existing sets first_run to false and does not fire the
\* modified hook (no modified command is run)
C7_HookSuppressed ==
    [][(/\ last'.op = "GenerateTemplate" /\ last'.handled
        /\ passCount = 0
        /\ FoundExisting(last'.msg.tmpl))
       => (/\ ~first_run'
           /\ Ran(last') = 0)]_vars
\* C7 (amended): such a materialization sets first_run to false and fires the
\* modified hook exactly when a written file has a digest other than the
\* stored one, as every file not hashed before in this run has
C7_HookFiredOnNewDigest ==
    [][(/\ last'.op = "GenerateTemplate" /\ last'.handled
        /\ passCount = 0
        /\ FoundExisting(last'.msg.tmpl))
       => LET t == last'.msg.tmpl
          IN  /\ ~first_run'
              /\ Fired(last') = (IF NewDigest(t) THEN 1 ELSE 0)
              /\ (\E f \in Range(TemplateConf(t).files) : checksums[f] = None)
                    => Fired(last') = 1
              /\ Ran(last') = (IF ModifiedRunnable(t) THEN Fired(last') ELSE 0)]_vars
C7_Witness ==
    /\ last.op = "GenerateTemplate" /\ last.handled
    /\ PassesBefore = 0
    /\ \E f \in Range(TemplateConf(last.msg.tmpl).files) : f \in input.preexisting
    /\ matCount[last.msg.tmpl] = 1
    /\ Fired(last) = 1 /\ Ran(last) = 1

\* C8: a materialization handled after the first pass has completed fires the
\* modified hook once if a written file differs from what was hashed for it
\* before, and not at all if every written file is as hashed before
C8_ModifiedOnChange ==
    [][(/\ last'.op = "GenerateTemplate" /\ last'.handled
        /\ passCount >= 1)
       => LET t == last'.msg.tmpl
              fs == Range(TemplateConf(t).files)
              differs(f) == checksums[f] # None /\ checksums[f] # Some(Sha1(Unwrap(disk'[f])))
              same(f) == checksums[f] = Some(Sha1(Unwrap(disk'[f])))
          IN  /\ (\E f \in fs : differs(f)) => Fired(last') = 1
              /\ (\A f \in fs : same(f)) => Fired(last') = 0
              /\ Ran(last') = (IF ModifiedRunnable(t) THEN Fired(last') ELSE 0)]_vars
C8_Witness ==
    /\ last.op = "GenerateTemplate" /\ last.handled
    /\ PassesBefore >= 1
    /\ matCount[last.msg.tmpl] >= 2
    /\ Fired(last) = 1 /\ Ran(last) = 1

\* C9: on an initial install no modified hook is fired (no modified command
\* is run) before every job has been materialized, the one being handled
\* included
C9_NoHookBeforeFirstPass ==
    (/\ input.preexisting = {}
     /\ last.op = "GenerateTemplate" /\ last.handled
     /\ Ran(last) > 0)
    => \A t \in input.registry : matCount[t] >= 1

\* C10: with a readiness descriptor, the newline is written once, when the
\* first pass completes, and never again
C10_ReadyWrittenOnce ==
    args.ready_fd # None => readyWrites = (IF passCount >= 1 THEN 1 ELSE 0)

\* C11: a ready hook is fired only when every registered job has been
\* materialized since the previous pass completion: by the k-th ready hook
\* every job has been materialized at least k times
RanReady(step) == Cardinality({i \in DOMAIN step.executed : step.executed[i].hook = "ready"})
C11_ReadyAfterEveryJob ==
    (last.op = "GenerateTemplate" /\ last.handled /\ RanReady(last) > 0)
    => \A t \in input.registry : matCount[t] >= passCount

\* C12 (as claimed): every GenerateTemplate handled before the first pass
\* completes was sent by generate_all_templates, none by the loading of the
\* configuration or by the GetSecret handler
C12_FirstPassFromSweep ==
    (last.op = "GenerateTemplate" /\ PassesBefore = 0) => last.from = "generate_all"
\* C12 (amended): every GenerateTemplate handled before the first pass
\* completes was sent by generate_all_templates or, for a job without declared
\* secrets, by the loading of the configuration; none by the GetSecret handler
C12_FirstPassFromStartup ==
    (last.op = "GenerateTemplate" /\ PassesBefore = 0) =>
        \/ last.from = "generate_all"
        \/ last.from = "loading" /\ Declared(last.msg.tmpl) = {}
C12_Witness ==
    /\ last.op = "GenerateTemplate" /\ last.handled /\ PassesBefore = 0
    /\ last.from = "loading"
    /\ \E t \in input.registry : Declared(t) # {}

\* the GenerateTemplate(t) messages of generate_all_templates in the queue
SweepCount(t) ==
    Cardinality({i \in DOMAIN queue :
                    origin[i] = "generate_all" /\ queue[i] = GenerateTemplate(t)})

\* C13 (as claimed): generate_all_templates sends GenerateTemplate(job) exactly
\* for the jobs whose declared secrets all hold a value in the store, and
\* skips the others
C13_SweepOnlyPresent ==
    last.op = "startup" =>
        \A t \in input.registry :
            SweepCount(t) > 0 <=> \A p \in Declared(t) : secrets[p] # None
\* C13 (amended): generate_all_templates sends GenerateTemplate(job) once,
\* exactly for the jobs whose declared secrets all have a slot in the store,
\* with or without a value; after the loading every declared secret has a
\* slot, so every registered job is sent and none is skipped
C13_SweepEveryDeclared ==
    last.op = "startup" =>
        /\ \A t \in Templates :
              SweepCount(t) =
                  (IF t \in input.registry /\ Declared(t) \subseteq DOMAIN secrets THEN 1 ELSE 0)
        /\ \A t \in input.registry : SweepCount(t) = 1
C13_Witness ==
    /\ last.op = "startup"
    /\ \E t \in input.registry :
          /\ \E p \in Declared(t) : secrets[p] = None
          /\ SweepCount(t) = 1

\* C14: at most one pending Login timer per role and at most one pending
\* GetSecret timer per secret path
TimerKey(t) == IF t.msg.type = "Login" THEN <<"Login", t.msg.role>> ELSE <<"GetSecret", t.msg.path>>
C14_OneTimerPerKey ==
    \A t \in BagToSet(timers) :
        /\ CopiesIn(t, timers) = 1
        /\ \A u \in BagToSet(timers) : TimerKey(u) = TimerKey(t) => u = t

\* C15: at startup a Login(role) is ahead in the queue of every GetSecret of
\* a vault path of that role, and when such a GetSecret is handled a login
\* for its role has been handled
IsVault(m) == m.type = "GetSecret" /\ SecretPath(m.path).backend = "Vault"
C15_LoginBeforeFetch ==
    /\ last.op = "startup" =>
          \A i \in DOMAIN queue :
              IsVault(queue[i]) =>
                  \E j \in 1..(i - 1) : queue[j] = Login(SecretPath(queue[i].path).args[1])
    /\ (last.op = "GetSecret" /\ IsVault(last.msg) /\ last.from = "loading") =>
          client[SecretPath(last.msg.path).args[1]] # None
C15_Witness ==
    /\ last.op = "GetSecret" /\ IsVault(last.msg) /\ last.from = "loading"
    /\ last.handled /\ last.fetched

FetchFailed(step) == step.op = "GetSecret" /\ step.fetched /\ ~step.handled
C17_FetchFailureIsFatal ==
    [][/\ FetchFailed(last') =>
            /\ secrets' = secrets
            /\ timers' = timers
            /\ queue' = Tail(queue)
            /\ last'.scheduled = <<>> /\ last'.sent = <<>>
            /\ pc' = "stopped"
            /\ err' # None
       /\ pc = "stopped" => (pc' = "stopped" /\ last' = last /\ queue' = queue /\ err' = err)]_vars
C17_Witness ==
    /\ FetchFailed(last)
    /\ queue # <<>>
    /\ \E p \in DOMAIN secrets : secrets[p] # None
    /\ pc = "stopped"

\* C18: handling GetSecret for an exe path whose first word does not start
\* with "/" fails with RelativePath: no command is run, the store stays as it
\* was and the loop ends with the error
RelativeExe(path) ==
    /\ SecretPath(path).backend = "Exe"
    /\ Head(Head(split_whitespace(SecretPath(path).full_path))) # "/"
C18_RelativeExeRejected ==
    [][(last'.op = "GetSecret" /\ RelativeExe(last'.msg.path)) =>
        /\ ~last'.handled
        /\ last'.cmd = None
        /\ secrets' = secrets
        /\ pc' = "stopped"
        /\ err' = Some("RelativePath")]_vars
C18_Witness ==
    /\ last.op = "GetSecret" /\ RelativeExe(last.msg.path)
    /\ err = Some("RelativePath")
    /\ secrets[last.msg.path] = None

\* C19: a hook whose first word is not an absolute path is never executed, and
\* a hook that is rejected, cannot be spawned or exits non-zero does not abort
\* the pass: the handler still counts the job, tests the completion of the
\* pass and, on completion, the termination condition
RejectedHook(t, hook_type) ==
    /\ HookOf(t, hook_type) # None
    /\ split_whitespace(Unwrap(HookOf(t, hook_type))) # <<>>
    /\ Head(Head(split_whitespace(Unwrap(HookOf(t, hook_type))))) # "/"
HookTrouble(step) ==
    \/ \E i \in DOMAIN step.triggered : RejectedHook(step.msg.tmpl, step.triggered[i])
    \/ \E i \in DOMAIN step.executed : step.executed[i].outcome # "ok"
C19_HookNeverAborts ==
    [][(last'.op = "GenerateTemplate" /\ last'.triggered # <<>>) =>
        /\ \A i \in DOMAIN last'.executed :
              ~RejectedHook(last'.executed[i].tmpl, last'.executed[i].hook)
        /\ HookTrouble(last') =>
              /\ last'.handled /\ err' = None
              /\ last'.pass <=> generated + 1 = Cardinality(input.registry)
              /\ generated' = IF last'.pass THEN 0 ELSE generated + 1
              /\ pc' = IF last'.pass /\ (~args.daemon \/ ~Leased(secrets))
                       THEN "stopped" ELSE "loop"]_vars
C19_Witness ==
    /\ last.op = "GenerateTemplate" /\ last.pass /\ pc = "loop"
    /\ \E i \in DOMAIN last.triggered : RejectedHook(last.msg.tmpl, last.triggered[i])
    /\ \E i \in DOMAIN last.executed : last.executed[i].outcome = "spawn"

\* C20: an exe secret fetched with the second argument "dynamic" is stored
\* with a lease of 0 seconds (it has a lease and is at once invalid), one
\* fetched with "static" or without a second argument is stored without a
\* lease; so a daemon whose only secret is a dynamic exe secret goes on after
\* its first pass
ExeFetched(step) ==
    /\ step.op = "GetSecret" /\ step.handled /\ step.fetched
    /\ SecretPath(step.msg.path).backend = "Exe"
C20_ExeLease ==
    /\ ExeFetched(last) =>
         LET a == SecretPath(last.msg.path).args
             s == Unwrap(secrets[last.msg.path])
         IN  /\ (Len(a) >= 2 /\ a[2] = "dynamic") =>
                   (s.lease = Some(0) /\ has_lease(s) /\ ~is_valid(s, now))
             /\ (Len(a) < 2 \/ a[2] = "static") => (s.lease = None /\ ~has_lease(s))
    /\ (FirstPassCompletes /\ args.daemon /\ DeclaredBy(input.registry) = {P_EXE})
         => pc = "loop"
C20_Witness ==
    /\ FirstPassCompletes /\ args.daemon /\ DeclaredBy(input.registry) = {P_EXE}
    /\ pc = "loop" /\ Lease0(secrets)

\* C21: the value stored for an exe secret comes from the standard output of
\* the command: with "str" it is the trimmed output, with "js" it is the
\* output parsed as JSON
C21_ExeValueFromStdout ==
    ExeFetched(last) =>
        LET a == SecretPath(last.msg.path).args
            out == Unwrap(last.stdout)
            s == Unwrap(secrets[last.msg.path])
        IN  /\ a[1] = "str" => s.value = trim(out)
            /\ a[1] = "js" => (JsonOk(trim(out)) /\ s.value = JsonValue(trim(out)))

\* C22: after a job whose mode string parses as octal has been materialized,
\* each of its output files has that mode; when the string does not parse the
\* files are written all the same
Materialized(step) == step.op = "GenerateTemplate" /\ step.handled
C22_ModeApplied ==
    Materialized(last) =>
        \A f \in Range(TemplateConf(last.msg.tmpl).files) :
            /\ disk[f] # None
            /\ from_str_radix(TemplateMode(last.msg.tmpl)) # None
                  => modes[f] = from_str_radix(TemplateMode(last.msg.tmpl))

\* C23: the registry is iterated in insertion order: the GenerateTemplate
\* messages of generate_all_templates, and those of one call of
\* generate_templates, are sent in the order in which the jobs were inserted
InsertedAt(t) == CHOOSE i \in DOMAIN input.insertOrder : input.insertOrder[i] = t
C23_InsertionOrder ==
    /\ last.op = "startup" =>
         \A i, j \in DOMAIN queue :
            (i < j /\ origin[i] = "generate_all" /\ origin[j] = "generate_all")
            => InsertedAt(queue[i].tmpl) < InsertedAt(queue[j].tmpl)
    /\ last.op = "GetSecret" =>
         \A i, j \in DOMAIN last.sent :
            (i < j /\ last.sent[i].type = "GenerateTemplate"
                   /\ last.sent[j].type = "GenerateTemplate")
            => InsertedAt(last.sent[i].tmpl) < InsertedAt(last.sent[j].tmpl)

\* C24: for a string that parses as a SecretPath, to_string of the parsed value
\* gives the string back, the positional arguments in their order and the
\* key=value arguments in theirs
IsKw(piece) == \E i \in DOMAIN piece : piece[i] = "="
SameModuloKwargs(out, orig) ==
    LET o == split(out, ":")
        s == split(orig, ":")
    IN  /\ Len(o) = Len(s)
        /\ o[1] = s[1]
        /\ o[3] = s[3]
        /\ SelectSeq(split(o[2], ","), IsKw) = SelectSeq(split(s[2], ","), IsKw)
        /\ SelectSeq(split(o[2], ","), LAMBDA a : ~IsKw(a))
              = SelectSeq(split(s[2], ","), LAMBDA a : ~IsKw(a))
C24_RoundTrip ==
    \A n \in {"simple_string", "nom_string"} :
        n \in DOMAIN results => SameModuloKwargs(results[n], intext)

\* C25: both parsers reject a string with an empty backend, an empty args
\* segment, an empty path segment, or data after a further ":", and both
\* return kwargs = None when no piece of the args segment is a key=value
WellFormed(s) ==
    /\ Len(split(s, ":")) = 3
    /\ \A i \in 1..3 : split(s, ":")[i] # <<>>
NoEmptyKwargs(r) ==
    /\ r.value.kwargs # Some(<<>>)
    /\ r.value.kwargs = None
          <=> \A piece \in Range(split(split(intext, ":")[2], ",")) : ~IsKw(piece)
C25_For(n) ==
    (n \in DOMAIN results /\ results[n].ok) => (WellFormed(intext) /\ NoEmptyKwargs(results[n]))
C25_BothReject == C25_For("simple") /\ C25_For("nom")

\* C26: SubstIterator terminates on every string; the tokens it yields give the
\* string back when concatenated (a Str as it is, a Var as ${name}) unless a
\* BraceError is among them; a "${" with no "}" after it makes BraceError the
\* last token; the empty string yields no token
Shown(token) == IF token.type = "Var" THEN <<"$", "{">> \o token.s \o <<"}">> ELSE token.s
Concat(tokens) == Cat([i \in DOMAIN tokens |-> Shown(tokens[i])])
Unclosed(s) ==
    \E i \in 1..(Len(s) - 1) :
        s[i] = "$" /\ s[i + 1] = "{" /\ \A j \in (i + 2)..Len(s) : s[j] # "}"
C26_Tokens ==
    /\ \A i \in DOMAIN results.tokens :
          results.tokens[i].type = "BraceError" => (i = Len(results.tokens) /\ results.remainder = <<>>)
    /\ results.done =>
          /\ Unclosed(intext) <=> \E i \in DOMAIN results.tokens : results.tokens[i].type = "BraceError"
          /\ ~Unclosed(intext) => Concat(results.tokens) = intext
          /\ intext = <<>> => results.tokens = <<>>
C26_SubstIterator == []C26_Tokens /\ <>results.done
C26_Witness ==
    /\ results.done
    /\ \E i, j \in DOMAIN results.tokens :
          i < j /\ results.tokens[i].type = "Var" /\ results.tokens[i].s # <<>>
                /\ results.tokens[j].type = "Str"
    /\ Concat(results.tokens) = intext

\* C27: when generate_templates sends GenerateTemplate(t), each declared secret
\* of t that is absent or not valid at that time has a GetSecret(path, false)
\* sent before it, and that secret has been fetched again when the
\* GenerateTemplate is handled, so the bindings hold the fetched value
NotValid(p) == secrets[p] = None \/ ~is_valid(Unwrap(secrets[p]), now)
C27_RefetchBeforeGenerate ==
    /\ (last.op = "GetSecret" /\ last.handled) =>
          \A j \in DOMAIN last.sent :
             last.sent[j].type = "GenerateTemplate" =>
                \A p \in Declared(last.sent[j].tmpl) :
                   NotValid(p) => \E i \in 1..(j - 1) : last.sent[i] = GetSecret(p, FALSE)
    /\ (last.op = "GenerateTemplate" /\ last.from = "generate_templates"
          /\ last.secrets_val # None) =>
          /\ last.stale = {}
          /\ \A p \in Declared(last.msg.tmpl) :
                Unwrap(last.secrets_val)[TemplateConf(last.msg.tmpl).secrets[p]]
                   = Unwrap(secrets[p]).value
C27_Witness ==
    /\ last.op = "GenerateTemplate" /\ last.handled /\ last.from = "generate_templates"
    /\ \E p \in Declared(last.msg.tmpl) : NotValid(p)

\* C28: handling GetSecret(path, false) sends no message, whether the value
\* changed or not; so what one GetSecret(path, true) sets off is bounded: its
\* handler sends, for each job, at most one GetSecret(_, false) for each
\* declared secret and one GenerateTemplate, and none of these sends anything
RECURSIVE Sum(_, _)
Sum(f, S) == IF S = {} THEN 0 ELSE LET x == CHOOSE x \in S : TRUE IN f[x] + Sum(f, S \ {x})
CascadeBound == Sum([t \in Templates |-> Cardinality(Declared(t)) + 1], input.registry)
C28_NoCascade ==
    [][/\ (last'.op = "GetSecret" /\ ~last'.msg.gen_tmpl) =>
            (last'.sent = <<>> /\ queue' = Tail(queue))
       /\ last'.op = "GenerateTemplate" => queue' = Tail(queue)
       /\ (last'.op = "GetSecret" /\ last'.msg.gen_tmpl) =>
            /\ queue' = Tail(queue) \o last'.sent
            /\ Len(last'.sent) <= CascadeBound
            /\ \A i \in DOMAIN last'.sent :
                  last'.sent[i].type = "GetSecret" => ~last'.sent[i].gen_tmpl]_vars
C28_Witness ==
    /\ last.op = "GetSecret" /\ ~last.msg.gen_tmpl /\ last.handled /\ last.replaced
    /\ last.from = "generate_templates"
    /\ \E t \in input.registry : last.msg.path \in Declared(t)

\* C29: the loading sends exactly one GetSecret(path, false) for each declared
\* path, however many jobs declare it, and the store holds None for the path
\* from then on, as long as that message is in the queue
C29_OneFetchPerPath ==
    /\ last.op = "startup" =>
          \A p \in DeclaredBy(input.registry) :
             /\ Occurs(queue, GetSecret(p, FALSE)) = 1
             /\ Occurs(queue, GetSecret(p, TRUE)) = 0
    /\ \A i \in DOMAIN queue :
          (queue[i].type = "GetSecret" /\ origin[i] = "loading") =>
             (queue[i].path \in DOMAIN secrets /\ secrets[queue[i].path] = None)
C29_Witness ==
    /\ last.op = "startup"
    /\ \E t, u \in input.registry : t # u /\ Declared(t) \cap Declared(u) # {}

\* C30: handling Login(role) while the role is logged in makes no login call,
\* schedules nothing and changes no state; otherwise one login call is made
\* and, when it succeeds, the handle is stored and exactly one Login(role) is
\* scheduled at two thirds of the lease if and only if the handle is renewable
LoginHandled == pc = "loop" /\ queue # <<>> /\ Head(queue).type = "Login" /\ queue' = Tail(queue)
AtTwoThirds(due, tm, lease) == 3 * (due - tm) <= 2 * lease /\ 2 * lease < 3 * (due - tm) + 3
C30_Login ==
    [][LoginHandled =>
        LET role == Head(queue).role
        IN  IF is_logged(client, role, now)
            THEN /\ ~last'.fetched
                 /\ last'.scheduled = <<>>
                 /\ UNCHANGED <<pc, err, now, timers, secrets, client, checksums, disk, modes,
                                first_run, generated, fd>>
            ELSE /\ pc' # "loop" => (err' = Some("login") /\ UNCHANGED <<client, timers, secrets>>)
                 /\ pc' = "loop" =>
                      /\ last'.fetched
                      /\ client'[role] # None
                      /\ Unwrap(client'[role]).time = now
                      /\ \A r \in DOMAIN client : r # role => client'[r] = client[r]
                      /\ \E added \in SUBSET BagToSet(timers') :
                            /\ timers' = timers (+) SetToBag(added)
                            /\ Unwrap(client'[role]).renewable =>
                                 \E t \in added :
                                    /\ added = {t}
                                    /\ t.msg = Login(role)
                                    /\ AtTwoThirds(t.due, now, Unwrap(client'[role]).lease_duration)
                            /\ ~Unwrap(client'[role]).renewable => added = {}
                      /\ UNCHANGED <<err, now, secrets, checksums, disk, modes, first_run, generated>>]_vars
C30_Witness ==
    /\ last.op = "Login" /\ last.handled /\ last.fetched
    /\ client[last.msg.role] # None
    /\ Unwrap(client[last.msg.role]).renewable
    /\ \E t \in BagToSet(timers) : t.msg = Login(last.msg.role)

\* C31: whenever a GenerateTemplate message is handled every slot of the
\* secret store holds a fetched secret, so the unwrap of line 391 does not
\* panic
C31_NoUnwrapPanic ==
    last.op = "GenerateTemplate" =>
        /\ \A p \in DOMAIN secrets : secrets[p] # None
        /\ err # Some("panic")

\* C32: in daemon mode with a renewable authentication handle, every fetch
\* from the authenticated backend is made while is_logged holds for its role:
\* the Login scheduled at two thirds of the lease keeps the handle alive.
\* Stated for the renewals that a timer sent and that the broker handles in
\* the second they were due, so that no lateness of the broker is involved
RoleOf(m) == SecretPath(m.path).args[1]
RenewedOnTime(step) ==
    /\ step.op = "GetSecret" /\ step.fetched /\ step.from = "timer" /\ IsVault(step.msg)
    /\ step.msg.path \in DOMAIN secrets
    /\ secrets[step.msg.path] # None
    /\ LET s == Unwrap(secrets[step.msg.path])
       IN  \/ step.secret # None /\ s.time = now
           \/ step.secret = None /\ renew_delay(s) # None
                                 /\ now = s.time + Unwrap(renew_delay(s))
C32_LoggedAtFetch ==
    (/\ args.daemon
     /\ RenewedOnTime(last)
     /\ client[RoleOf(last.msg)] # None
     /\ Unwrap(client[RoleOf(last.msg)]).renewable)
        => is_logged(client, RoleOf(last.msg), now)

\* C33: when not in daemon mode the broker eventually stops, whatever the
\* registry holds: an operation fails, or the first pass completes
C33_EventuallyStops == ~args.daemon => <>(pc = "stopped")

\* C34: after the loading the key set of the secret store never changes, it
\* is the set of the secret paths the jobs declare, and a slot that holds a
\* secret never goes back to None
C34_SlotsOnlyFill ==
    [][pc # "startup" =>
        /\ DOMAIN secrets = UNION {Declared(t) : t \in input.registry}
        /\ DOMAIN secrets' = DOMAIN secrets
        /\ \A p \in DOMAIN secrets : secrets[p] # None => secrets'[p] # None]_vars
C34_Witness ==
    /\ last.op = "GetSecret" /\ last.handled /\ last.fetched /\ last.replaced
    /\ last.from = "timer"
    /\ secrets[last.msg.path] = last.secret

\* C35: in daemon mode, while the broker runs, every stored secret that is
\* renewable with a positive lease has a GetSecret(path, true) pending in a
\* timer or waiting in the queue; and when that message, sent by a timer, is
\* handled once the secret is due for renewal, a fetch is made, and a fetch
\* that returns a renewable secret schedules the next one
Renewable(store, p) ==
    /\ store[p] # None
    /\ Unwrap(store[p]).renewable
    /\ Unwrap(store[p]).lease # None
    /\ Unwrap(Unwrap(store[p]).lease) > 0
RenewalPending(q, ts, p) ==
    \/ \E t \in BagToSet(ts) : t.msg = GetSecret(p, TRUE)
    \/ \E i \in DOMAIN q : q[i] = GetSecret(p, TRUE)
C35_RenewalRecurs ==
    [][/\ (args.daemon /\ pc' = "loop") =>
            \A p \in DOMAIN secrets' : Renewable(secrets', p) => RenewalPending(queue', timers', p)
       /\ (/\ args.daemon
           /\ last'.op = "GetSecret" /\ last'.from = "timer" /\ last'.msg.gen_tmpl
           /\ Renewable(secrets, last'.msg.path)
           /\ to_renew(Unwrap(secrets[last'.msg.path]), now)) =>
            /\ last'.fetched
            /\ last'.handled =>
                 /\ secrets'[last'.msg.path] = last'.secret
                 /\ Renewable(secrets', last'.msg.path) =>
                      last'.scheduled =
                         <<[msg |-> GetSecret(last'.msg.path, TRUE),
                            due |-> now + (2 * Unwrap(Unwrap(last'.secret).lease)) \div 3]>>]_vars
C35_Witness ==
    /\ args.daemon /\ pc = "loop"
    /\ last.op = "GetSecret" /\ last.from = "timer" /\ last.msg.gen_tmpl
    /\ last.handled /\ last.fetched
    /\ Renewable(secrets, last.msg.path)
    /\ last.scheduled # <<>>
    /\ RenewalPending(queue, timers, last.msg.path)
====
